---- MODULE Spec2Model ----
(***************************************************************************)
(* A model of src/app.js (nifty-dip-alert): the trading-alert time window, *)
(* the quote acquisition with its intraday+daily fallback, the dip         *)
(* detector, the notifiers, the watchlist scan (checkWatchlist) with its   *)
(* suspension points, the lastDips cache and the request handler.          *)
(*                                                                         *)
(* Numbers.  A price is an integer count of tenths of a rupee (995 is      *)
(* Rs 99.5); NaN and Infinity are values of their own.  A percentage       *)
(* change is an exact rational n/d (d > 0) and the two-decimal rounding of *)
(* toFixed(2) yields an integer count of hundredths of a percent (-50 is   *)
(* -0.50).  Binary floating-point rounding of the division is not          *)
(* modelled.                                                               *)
(*                                                                         *)
(* Time.  A DateTime in Asia/Kolkata (no daylight saving) is               *)
(* [day, ms]: day 1 is a Monday, ms the millisecond of the day.            *)
(***************************************************************************)
EXTENDS Integers, Sequences, FiniteSets, TLC

\* ------------------------------------------------------------------ bounds
\* The number of WATCHLIST entries the scans iterate over (a prefix of the
\* source's list).
WatchlistLen == 2
\* The number of checkWatchlist invocations that may be in progress at once.
MaxScans == 2

\* --------------------------------------------------------------- constants
WATCHLIST ==
  << [name |-> "Nifty 50 (NIFTYBEES)", symbol |-> "NIFTYBEES"],
     [name |-> "Nifty Next 50 (JUNIORBEES)", symbol |-> "JUNIORBEES"],
     [name |-> "Nifty Midcap 150 (NETFMID150)", symbol |-> "NETFMID150"],
     [name |-> "Nifty Smallcap 250 (MOTISMLCAP)", symbol |-> "MOTISMLCAP"],
     [name |-> "Nifty Bank (BANKBEES)", symbol |-> "BANKBEES"],
     [name |-> "Nifty IT (INFY)", symbol |-> "INFY"],
     [name |-> "Nifty FMCG (NIFTYFMCG)", symbol |-> "NIFTYFMCG"] >>

\* WATCHLIST.length as the loop sees it.
NItems == IF WatchlistLen < Len(WATCHLIST) THEN WatchlistLen ELSE Len(WATCHLIST)

\* A number: Num(v) is the finite number v, NaN and Infinity the two
\* non-finite ones a response field can parse to.
Num(v) == [t |-> "num", v |-> v]
NaN == [t |-> "NaN"]
Infinity == [t |-> "Infinity"]
\* undefined (a missing field or key) and null.
Absent == [t |-> "absent"]
Null == [t |-> "null"]
\* A rejected promise / a thrown exception.
Throw == [t |-> "throw"]

\* The rational n/d with a positive denominator.
Rat(n, d) == IF d < 0 THEN [t |-> "rat", n |-> -n, d |-> -d] ELSE [t |-> "rat", n |-> n, d |-> d]

LeqRat(a, b) == a.n * b.d <= b.n * a.d

\* THRESHOLD_PCT = -0.5 as the rational -1/2.
THRESHOLD_PCT == Rat(-1, 2)

\* The default of EARLY_CUTOFF_MINUTES when the environment does not set it.
DefaultCutoff == 15

MsPerMinute == 60 * 1000
MsPerDay == 24 * 60 * MsPerMinute

VARIABLES
  EARLY_CUTOFF_MINUTES, \* Number(process.env.EARLY_CUTOFF_MINUTES ?? 15)
  env,                  \* process.env: the keys that are set
  scenario,             \* the name of the surroundings of the run: what the
                        \* provider can answer, who calls, how many scans
                        \* may overlap
  top,                  \* position of the module's top-level code
  lastDips,             \* the module-level cache read by GET /get
  sc,                   \* the checkWatchlist invocations in progress
  ev,                   \* what the step just taken did, as seen from outside
  lastScan,             \* history: the result of the last scan that wrote lastDips
  lastGet,              \* history: the body of the last GET /get since that
                        \* write
  probe                 \* an evaluation of isWithinTradingAlertWindow on its own

vars == << EARLY_CUTOFF_MINUTES, env, scenario, top, lastDips, sc, ev, lastScan, lastGet, probe >>

\* ---------------------------------------------------------------- DateTime
\* luxon's weekday: 1 = Monday .. 7 = Sunday.
Weekday(dt) == ((dt.day - 1) % 7) + 1

\* dt.valueOf(): what >= and <= compare.
ValueOf(dt) == dt.day * MsPerDay + dt.ms

\* dt.set({hour, minute, second, millisecond}): the same day, that time.
SetTime(dt, hour, minute, second, millisecond) ==
  [day |-> dt.day,
   ms |-> ((hour * 60 + minute) * 60 + second) * 1000 + millisecond]

\* dt.minus({minutes}): may cross into an earlier day.
MinusMinutes(dt, minutes) ==
  LET v == ValueOf(dt) - minutes * MsPerMinute
  IN  [day |-> v \div MsPerDay, ms |-> v % MsPerDay]

\* The gate with the weekend test off by one day (day > 6).
isWithinTradingAlertWindow_SaturdayOpen(nowIST) ==
  LET day == Weekday(nowIST)
      start == SetTime(nowIST, 9, 20, 0, 0)
      cutoff == MinusMinutes(SetTime(nowIST, 15, 0, 0, 0), EARLY_CUTOFF_MINUTES)
  IN  IF day > 6 THEN FALSE
      ELSE ValueOf(nowIST) >= ValueOf(start) /\ ValueOf(nowIST) <= ValueOf(cutoff)

isWithinTradingAlertWindow(nowIST) ==
  LET day == Weekday(nowIST)
      start == SetTime(nowIST, 9, 20, 0, 0)
      cutoff == MinusMinutes(SetTime(nowIST, 15, 0, 0, 0), EARLY_CUTOFF_MINUTES)
  IN  IF day > 5 THEN FALSE
      ELSE ValueOf(nowIST) >= ValueOf(start) /\ ValueOf(nowIST) <= ValueOf(cutoff)

\* ------------------------------------------------------------ dip detector
\* isFinite(x) for x a Number.
isFinite(x) == x.t = "num"

\* Number(v) of a response field: a numeric string is its number, any other
\* string NaN ("Infinity" parses to Infinity), undefined NaN.
Number(v) == IF v = Absent THEN NaN ELSE v

\* pctChange without the prior === 0 test.
pctChange_NoZeroTest(latest, prior) ==
  IF ~isFinite(latest) \/ ~isFinite(prior) THEN Null
  ELSE Rat((latest.v - prior.v) * 100, prior.v)

pctChange(latest, prior) ==
  IF ~isFinite(latest) \/ ~isFinite(prior) THEN Null
  ELSE IF prior.v = 0 THEN Null
  ELSE Rat((latest.v - prior.v) * 100, prior.v)

\* change < THRESHOLD_PCT
IsDip_Strict(change) == ~LeqRat(THRESHOLD_PCT, change)

\* change <= THRESHOLD_PCT
IsDip(change) == LeqRat(change, THRESHOLD_PCT)

\* Number(change.toFixed(2)), in hundredths: the nearest hundredth, a tie
\* going away from zero.
ToFixed2(change) ==
  LET n == change.n * 100
      d == change.d
      a == IF n < 0 THEN -n ELSE n
      q == (2 * a + d) \div (2 * d)
  IN  IF n < 0 THEN -q ELSE q

\* ---------------------------------------------------------------- notifiers
\* A credential (a constructor argument, an environment key) is a string: ""
\* when unset or empty, which is what !x tests.
Unset == ""
Credentials == {Unset, "set"}

ConsoleNotifier == [kind |-> "console"]

\* new TelegramNotifier(botToken, chatId)
TelegramNotifier(botToken, chatId) ==
  [kind |-> "telegram", botToken |-> botToken, chatId |-> chatId]

MissingCredentials == [ok |-> FALSE, error |-> "Missing Telegram credentials"]
TransportFailure == [ok |-> FALSE, error |-> "Network Error"]
Delivered == [ok |-> TRUE, telegram |-> "data"]

\* The credentials check with && for ||.
TelegramNotify_BothMissing(n) ==
  IF n.botToken = Unset /\ n.chatId = Unset
  THEN [botToken |-> n.botToken, chatId |-> n.chatId, posts |-> 0,
        outcome |-> "none", settled |-> TRUE, result |-> MissingCredentials]
  ELSE [botToken |-> n.botToken, chatId |-> n.chatId, posts |-> 1,
        outcome |-> "none", settled |-> FALSE, result |-> Null]

\* TelegramNotifier.notify up to its await: the credentials check and, past
\* it, the one axios.post.  An invocation is the record of its receiver's
\* credentials, the outbound calls it has made (posts), how its post ended
\* (outcome, filled in by the step that settles it) and what it returned.
TelegramNotify(n) ==
  IF n.botToken = Unset \/ n.chatId = Unset
  THEN [botToken |-> n.botToken, chatId |-> n.chatId, posts |-> 0,
        outcome |-> "none", settled |-> TRUE, result |-> MissingCredentials]
  ELSE [botToken |-> n.botToken, chatId |-> n.chatId, posts |-> 1,
        outcome |-> "none", settled |-> FALSE, result |-> Null]

\* The await without its try/catch: a rejected post rejects notify.
TelegramNotifyResume_NoCatch(tn, outcome) ==
  IF outcome = "ok"
  THEN [tn EXCEPT !.settled = TRUE, !.result = Delivered]
  ELSE [tn EXCEPT !.settled = TRUE, !.result = Throw]

\* TelegramNotifier.notify from its await on: the post resolved ("ok") or
\* rejected ("error", caught at line 65).
TelegramNotifyResume(tn, outcome) ==
  IF outcome = "ok"
  THEN [tn EXCEPT !.settled = TRUE, !.result = Delivered]
  ELSE [tn EXCEPT !.settled = TRUE, !.result = TransportFailure]

PostOutcomes == {"ok", "error"}

\* ------------------------------------------------------------ quote source
Bar(close) == [close |-> close]

Rejected == [t |-> "throw"]
NoSeries == [t |-> "noseries"]
Series(bars) == [t |-> "series", bars |-> bars]

\* What axios.get of GLOBAL_QUOTE can produce: a rejection, a body without
\* "Global Quote", or one whose two fields are strings or missing.
PrimaryResponses ==
  {Rejected, [t |-> "data", quote |-> Absent]} \cup
  { [t |-> "data", quote |-> [price |-> f[1], prev |-> f[2]]] :
      f \in { <<Num(995), Num(1000)>>, <<Num(996), Num(1000)>>,
              <<Num(950), Num(1000)>>, <<Num(298), Num(300)>>,
              <<Num(1000), Num(0)>>,
              <<NaN, Num(1000)>>, <<Num(1000), Infinity>>,
              <<Absent, Num(1000)>>, <<Num(1000), Absent>> } }

\* A time series is the sequence of its bars in ascending key order, so
\* Object.keys(ts).sort().reverse()[0] is its last index.
IntradayResponses ==
  {Rejected, NoSeries, Series(<< >>), Series(<< Bar(Num(996)), Bar(Num(995)) >>),
   Series(<< Bar(Num(996)) >>), Series(<< Bar(Absent) >>)}

DailyResponses ==
  {Rejected, NoSeries, Series(<< >>), Series(<< Bar(Num(1000)) >>),
   Series(<< Bar(Num(1000)), Bar(Num(990)) >>),
   Series(<< Bar(Num(0)), Bar(Num(1000)) >>)}

Fallback == [t |-> "fallback"]

\* fetchQuote testing the price field only.
PrimaryQuote_PriceOnly(symbol, data) ==
  LET q == data.quote
  IN  IF q = Absent THEN Fallback
      ELSE IF q.price = Absent THEN Fallback
      ELSE [symbol |-> symbol, price |-> Number(q.price),
            prevClose |-> Number(q.prev), source |-> "GLOBAL_QUOTE"]

\* fetchQuote after the primary response: Fallback when q or one of its two
\* fields is missing, else the GLOBAL_QUOTE quote.
PrimaryQuote(symbol, data) ==
  LET q == data.quote
  IN  IF q = Absent THEN Fallback
      ELSE IF q.price = Absent \/ q.prev = Absent THEN Fallback
      ELSE [symbol |-> symbol, price |-> Number(q.price),
            prevClose |-> Number(q.prev), source |-> "GLOBAL_QUOTE"]

\* fetchIntraday5Min after its response: null (rejected, no series, or the
\* TypeError of an empty series, all inside the try), or the latest bar's
\* close, with the daily request to follow.
IntradayPrice(resp) ==
  IF resp.t # "series" THEN Null
  ELSE IF Len(resp.bars) = 0 THEN Null
  ELSE [price |-> Number(resp.bars[Len(resp.bars)].close)]

\* fetchDailyPrevClose answering NaN for a series without bars.
fetchDailyPrevClose_EmptyAsNaN(resp) ==
  IF resp.t # "series" THEN Null
  ELSE IF Len(resp.bars) = 0 THEN [prevClose |-> NaN]
  ELSE LET days == resp.bars
           k == Len(days)
       IN  [prevClose |-> IF k >= 2 THEN Number(days[k - 1].close)
                          ELSE Number(days[k].close)]

\* fetchDailyPrevClose after its response.
fetchDailyPrevClose(resp) ==
  IF resp.t # "series" THEN Null
  ELSE IF Len(resp.bars) = 0 THEN Null
  ELSE LET days == resp.bars
           k == Len(days)
       IN  [prevClose |-> IF k >= 2 THEN Number(days[k - 1].close)
                          ELSE Number(days[k].close)]

\* ------------------------------------------------------------------- clock
At(day, hour, minute, second, millisecond) ==
  SetTime([day |-> day, ms |-> 0], hour, minute, second, millisecond)

\* The instants DateTime.now() returns in the runs explored, as day and time
\* of the week: a Monday at the default cutoff and one millisecond past it,
\* and a Saturday morning.
Instants == { At(1, 14, 45, 0, 0), At(1, 14, 45, 0, 1), At(6, 9, 20, 0, 0) }

\* -------------------------------------------------------------------- scan
ScanIds == 1 .. MaxScans

\* A slot no invocation occupies.  The fields from data on are the locals
\* of one loop iteration: data, intraday and daily are what the GLOBAL_QUOTE,
\* TIME_SERIES_INTRADAY and TIME_SERIES_DAILY_ADJUSTED requests settled with;
\* reqs, notified and tgCalls count the quote requests, the notifier.notify
\* calls and the tgNotifier.notify calls the iteration has made, and cls
\* says how it ended.
IdleScan ==
  [pc |-> "idle", origin |-> "none", notifier |-> ConsoleNotifier,
   skipNotify |-> FALSE, nowIST |-> Null, i |-> 0, dips |-> << >>, ret |-> Null,
   data |-> Null, intraday |-> Null, daily |-> Null, price |-> Null,
   quote |-> Null, telegramResponse |-> Null, tn |-> Null,
   notifyResult |-> Null, reqs |-> 0, notified |-> 0, tgCalls |-> 0,
   cls |-> "none"]

\* The record kept whole.
Strip_KeepAll(d) == d

\* { telegram, ...rest } = d; return rest
Strip(d) == [k \in DOMAIN d \ {"telegram"} |-> d[k]]

\* The map that also reverses the order.
StripAll_Reversed(dips) == [k \in 1 .. Len(dips) |-> Strip(dips[Len(dips) + 1 - k])]

\* dips.map(d => ...)
StripAll(dips) == [k \in 1 .. Len(dips) |-> Strip(dips[k])]

\* The iteration for WATCHLIST[i] starts (past the pacing delay when i > 0):
\* fetchQuote issues the GLOBAL_QUOTE request and awaits it.
BeginIteration(r) == [r EXCEPT !.pc = "primary", !.reqs = 1]

\* The body of the loop is left for WATCHLIST[i].
EndIteration(r, cls) == [r EXCEPT !.pc = "iterEnd", !.cls = cls]

\* The loop body without its try/catch: the exception leaves checkWatchlist.
Caught_Rethrown(r) == [r EXCEPT !.pc = "rejected", !.cls = "throw"]

\* catch (e) { } of the loop body: the iteration is abandoned.
Caught(r) == EndIteration(r, "throw")

DipRecord(r) ==
  LET item == WATCHLIST[r.i + 1]
  IN  [name |-> item.name, symbol |-> item.symbol, price |-> r.quote.price.v,
       prevClose |-> r.quote.prevClose.v,
       change |-> ToFixed2(pctChange(r.quote.price, r.quote.prevClose)),
       time |-> r.nowIST, telegram |-> r.telegramResponse]

\* The record put in front of dips.
Push_Front(r) == EndIteration([r EXCEPT !.dips = << DipRecord(r) >> \o @], "dip")

\* dips.push({...})
Push(r) == EndIteration([r EXCEPT !.dips = Append(@, DipRecord(r))], "dip")

\* await notifier.notify(msg), up to the await.
CallNotifier(r) ==
  IF r.notifier.kind = "console"
  THEN [r EXCEPT !.pc = "notify", !.notified = @ + 1]
  ELSE [r EXCEPT !.pc = "notify", !.notified = @ + 1, !.tn = TelegramNotify(r.notifier)]

\* Lines 142-159 up to the first await: null quotes and null changes are
\* skipped, the others classified and, for a dip, the notifier is called
\* unless skipNotify.
Classify(r0, quote) ==
  IF quote = Null THEN EndIteration(r0, "noquote")
  ELSE LET r == [r0 EXCEPT !.quote = quote]
           change == pctChange(quote.price, quote.prevClose)
       IN  IF change = Null THEN EndIteration(r, "nochange")
           ELSE IF IsDip(change)
                THEN IF ~r.skipNotify THEN CallNotifier(r) ELSE Push(r)
                ELSE EndIteration(r, "nodip")

\* The Telegram notifier built when either key is set.
CallTelegram_EitherKey(r, e) ==
  IF e.TG_BOT_TOKEN # Unset \/ e.TG_CHAT_ID # Unset
  THEN [r EXCEPT !.pc = "tgnotify", !.tgCalls = @ + 1,
                 !.tn = TelegramNotify(TelegramNotifier(e.TG_BOT_TOKEN, e.TG_CHAT_ID))]
  ELSE Push(r)

\* Lines 155-158 up to the await: the Telegram notifier of the environment.
CallTelegram(r, e) ==
  IF e.TG_BOT_TOKEN # Unset /\ e.TG_CHAT_ID # Unset
  THEN [r EXCEPT !.pc = "tgnotify", !.tgCalls = @ + 1,
                 !.tn = TelegramNotify(TelegramNotifier(e.TG_BOT_TOKEN, e.TG_CHAT_ID))]
  ELSE Push(r)

OutsideWindow == [ok |-> FALSE, message |-> "Outside alert window", dips |-> << >>]

\* checkWatchlist up to its first await: the gate, then the first iteration.
StartScan(origin, notifier, skipNotify, nowIST) ==
  LET r == [IdleScan EXCEPT !.origin = origin, !.notifier = notifier,
                            !.skipNotify = skipNotify, !.nowIST = nowIST]
  IN  IF ~isWithinTradingAlertWindow(nowIST)
      THEN [r EXCEPT !.pc = "returned", !.ret = OutsideWindow]
      ELSE BeginIteration(r)

\* The locals of an iteration go out of scope.
DropLocals(r) ==
  [r EXCEPT !.data = Null, !.intraday = Null, !.daily = Null, !.price = Null,
            !.quote = Null, !.telegramResponse = Null, !.tn = Null,
            !.notifyResult = Null, !.reqs = 0, !.notified = 0, !.tgCalls = 0,
            !.cls = "none"]

\* The next iteration started without the pacing delay.
Advance_NoPacing(r) ==
  IF r.i + 1 < NItems THEN [DropLocals(r) EXCEPT !.i = @ + 1, !.pc = "primary", !.reqs = 1]
  ELSE [DropLocals(r) EXCEPT !.pc = "loopEnd"]

\* i++ and the loop test: the pacing delay of the next iteration, or the end
\* of the loop.
Advance(r) ==
  IF r.i + 1 < NItems THEN [DropLocals(r) EXCEPT !.i = @ + 1, !.pc = "pacing"]
  ELSE [DropLocals(r) EXCEPT !.pc = "loopEnd"]

\* A scan whose promise never resolves.
Returned_Pending(r) == [r EXCEPT !.pc = "loopEnd"]

\* Lines 175-180: the value the scan returns.
Returned(r) == [r EXCEPT !.pc = "returned", !.ret = [ok |-> TRUE, dips |-> r.dips]]

\* fetchQuote has returned: its locals and those of the functions it called
\* are gone, the quote is what the loop body keeps.
FetchReturned(r) ==
  [r EXCEPT !.data = Null, !.intraday = Null, !.daily = Null, !.price = Null]

\* The cache written at the end of every iteration.
Continue_EarlyWrite(s, r) ==
  /\ IF r.pc = "iterEnd"
     THEN /\ ev' = [t |-> "iteration", s |-> s, r |-> r]
          /\ lastDips' = StripAll(r.dips)
          /\ IF Advance(r).pc = "loopEnd"
             THEN /\ sc' = [sc EXCEPT ![s] = Returned(Advance(r))]
                  /\ lastScan' = [ok |-> TRUE, dips |-> r.dips]
                  /\ lastGet' = Null
             ELSE /\ sc' = [sc EXCEPT ![s] = Advance(r)]
                  /\ UNCHANGED << lastScan, lastGet >>
     ELSE /\ IF r.pc = "notify"
             THEN /\ ev' = [t |-> "quote", s |-> s, r |-> r]
                  /\ sc' = [sc EXCEPT ![s] = FetchReturned(r)]
             ELSE /\ ev' = [t |-> "step", s |-> s]
                  /\ sc' = [sc EXCEPT ![s] = r]
          /\ UNCHANGED << lastDips, lastScan, lastGet >>
  /\ UNCHANGED << EARLY_CUTOFF_MINUTES, env, scenario, top, probe >>

\* The scan in slot s goes on as r.  When r has left the loop body the loop
\* advances, and past the last item lines 175-180 run, all in the same step.
\* When r is at the notifier's call, fetchQuote has just returned a dip.
Continue(s, r) ==
  /\ IF r.pc = "iterEnd"
     THEN /\ ev' = [t |-> "iteration", s |-> s, r |-> r]
          /\ IF Advance(r).pc = "loopEnd"
             THEN /\ sc' = [sc EXCEPT ![s] = Returned(Advance(r))]
                  /\ lastDips' = StripAll(r.dips)
                  /\ lastScan' = [ok |-> TRUE, dips |-> r.dips]
                  /\ lastGet' = Null
             ELSE /\ sc' = [sc EXCEPT ![s] = Advance(r)]
                  /\ UNCHANGED << lastDips, lastScan, lastGet >>
     ELSE /\ IF r.pc = "notify"
             THEN /\ ev' = [t |-> "quote", s |-> s, r |-> r]
                  /\ sc' = [sc EXCEPT ![s] = FetchReturned(r)]
             ELSE /\ ev' = [t |-> "step", s |-> s]
                  /\ sc' = [sc EXCEPT ![s] = r]
          /\ UNCHANGED << lastDips, lastScan, lastGet >>
  /\ UNCHANGED << EARLY_CUTOFF_MINUTES, env, scenario, top, probe >>

\* --------------------------------------------------------------- scenarios
\* The notifiers a caller can pass: instances of the module's classes.
Notifiers ==
  {ConsoleNotifier} \cup {TelegramNotifier(b, "set") : b \in Credentials}

\* The environments explored: the API key with each way the two Telegram
\* keys can fail to be both set, and no API key at all.
Environments ==
  { [ALPHAVANTAGE_API_KEY |-> k[1], TG_BOT_TOKEN |-> k[2], TG_CHAT_ID |-> k[3]] :
      k \in { <<"set", "set", "set">>, <<"set", "set", Unset>>,
              <<"set", Unset, "set">>, <<Unset, "set", "set">> } }

\* Requests served one at a time, by a module imported as a handler, with
\* every answer of the provider and every kind of caller.
Sequential ==
  [active |-> 1, mains |-> {FALSE}, envs |-> Environments,
   primary |-> PrimaryResponses, intraday |-> IntradayResponses,
   daily |-> DailyResponses,
   calls |-> {<<n, FALSE>> : n \in Notifiers} \cup {<<ConsoleNotifier, TRUE>>}]

\* Scans that overlap, in a module imported or run directly, with fewer
\* answers of the provider and the one caller that suppresses notifications.
Overlapping ==
  [active |-> MaxScans, mains |-> BOOLEAN,
   envs |-> {e \in Environments : e.TG_BOT_TOKEN # Unset /\ e.TG_CHAT_ID # Unset},
   primary |-> {Rejected, [t |-> "data", quote |-> Absent],
                [t |-> "data", quote |-> [price |-> Num(995), prev |-> Num(1000)]],
                [t |-> "data", quote |-> [price |-> Num(996), prev |-> Num(1000)]]},
   intraday |-> {NoSeries, Series(<< Bar(Num(996)), Bar(Num(995)) >>)},
   daily |-> {Rejected, Series(<< Bar(Num(1000)), Bar(Num(990)) >>)},
   calls |-> {<<ConsoleNotifier, TRUE>>}]

\* Requests served one at a time, by a module imported or run directly (where
\* the two scans of the load overlap), with one answer of each kind from the
\* provider.
Fair ==
  [active |-> 1, mains |-> BOOLEAN,
   envs |-> {e \in Environments : e.TG_BOT_TOKEN # Unset /\ e.TG_CHAT_ID # Unset},
   primary |-> {Rejected, [t |-> "data", quote |-> Absent],
                [t |-> "data", quote |-> [price |-> Num(995), prev |-> Num(1000)]],
                [t |-> "data", quote |-> [price |-> Num(996), prev |-> Num(1000)]]},
   intraday |-> {Rejected, Series(<< Bar(Num(996)), Bar(Num(995)) >>)},
   daily |-> {NoSeries, Series(<< Bar(Num(1000)), Bar(Num(990)) >>)},
   calls |-> {<<ConsoleNotifier, TRUE>>, <<TelegramNotifier("set", "set"), FALSE>>}]

\* The surroundings of this run.
World ==
  CASE scenario = "overlapping" -> Overlapping
    [] scenario = "fair" -> Fair
    [] OTHER -> Sequential

\* ----------------------------------------------------------------- actions
Busy == {s \in ScanIds : sc[s].pc # "idle"}

FreeSlots == ScanIds \ Busy

FirstFree == CHOOSE s \in FreeSlots : \A u \in FreeSlots : s <= u

CanStart == FreeSlots # {} /\ Cardinality(Busy) < World.active

InitWith(scn) ==
  /\ EARLY_CUTOFF_MINUTES = DefaultCutoff
  /\ scenario = scn
  /\ env \in World.envs
  /\ top = "start"
  /\ lastDips = << >>
  /\ sc = [s \in ScanIds |-> IdleScan]
  /\ ev = [t |-> "none"]
  /\ lastScan = Null
  /\ lastGet = Null
  /\ probe = Null

Init == InitWith("sequential")

InitOverlap == InitWith("overlapping")

InitFair == InitWith("fair")

\* The module is evaluated: without the API key the process exits (lines
\* 21-25); else line 206 starts a scan whose promise is dropped, the handler
\* is exported and, run as the main module, line 213 starts a second scan
\* whose result is printed.  All of it is one synchronous run.
ModuleLoad(isMain) ==
  /\ top = "start"
  /\ isMain \in World.mains
  /\ IF env.ALPHAVANTAGE_API_KEY = Unset
     THEN /\ top' = "exited"
          /\ UNCHANGED sc
     ELSE \E t1 \in Instants, t2 \in Instants :
            /\ top' = IF isMain THEN "main" ELSE "exported"
            /\ sc' = [s \in ScanIds |->
                        IF s = 1 THEN StartScan("load", ConsoleNotifier, FALSE, t1)
                        ELSE IF s = 2 /\ isMain
                             THEN StartScan("main", ConsoleNotifier, FALSE, t2)
                             ELSE IdleScan]
  /\ ev' = [t |-> "load", isMain |-> isMain]
  /\ UNCHANGED << EARLY_CUTOFF_MINUTES, env, scenario, lastDips, lastScan, lastGet, probe >>

Requests == [url : {"/get", "/"}, method : {"GET", "POST"}]

\* The body with its telegram field always present.
ScanBody_AlwaysTelegram(result) ==
  LET dips == StripAll(result.dips)
      all == [k \in 1 .. Len(result.dips) |-> result.dips[k].telegram]
      telegramResponses == SelectSeq(all, LAMBDA x : x # Null)
  IN  [ok |-> result.ok, dips |-> dips, telegram |-> telegramResponses]

\* { telegram: telegramResponses.length ? telegramResponses : undefined }: an
\* undefined field is left out of the JSON body.
ScanBody(result) ==
  LET dips == StripAll(result.dips)
      all == [k \in 1 .. Len(result.dips) |-> result.dips[k].telegram]
      telegramResponses == SelectSeq(all, LAMBDA x : x # Null)
  IN  IF Len(telegramResponses) # 0
      THEN [ok |-> result.ok, dips |-> dips, telegram |-> telegramResponses]
      ELSE [ok |-> result.ok, dips |-> dips]

\* A body that does not read the cache.
GetBody_Empty(cache) == [ok |-> TRUE, dips |-> << >>]

\* { ok: true, dips: lastDips }
GetBody(cache) == [ok |-> TRUE, dips |-> cache]

\* res.setHeader(...); res.status(200).json(body).  again is history: whether
\* lastGet already held a body when this one was sent.
Response(route, body, again) ==
  [t |-> "response", route |-> route, status |-> 200,
   contentType |-> "application/json", body |-> body, again |-> again]

IsGet(req) == req.url = "/get" /\ req.method = "GET"

\* handler(req, res) up to its first await: GET /get is answered from the
\* cache; any other request starts a scan and awaits it.
handler(req) ==
  /\ top = "exported"
  /\ IF IsGet(req)
     THEN /\ ev' = Response("get", GetBody(lastDips), lastGet # Null)
          /\ lastGet' = [body |-> GetBody(lastDips)]
          /\ UNCHANGED sc
     ELSE /\ CanStart
          /\ \E t \in Instants :
               sc' = [sc EXCEPT ![FirstFree] = StartScan("handler", ConsoleNotifier, FALSE, t)]
          /\ ev' = [t |-> "start", s |-> FirstFree]
          /\ UNCHANGED lastGet
  /\ UNCHANGED << EARLY_CUTOFF_MINUTES, env, scenario, top, lastDips, lastScan, probe >>

\* checkWatchlist(notifier, skipNotify) called with arguments.
Call(notifier, skipNotify) ==
  /\ top = "exported"
  /\ <<notifier, skipNotify>> \in World.calls
  /\ CanStart
  /\ \E t \in Instants :
       sc' = [sc EXCEPT ![FirstFree] = StartScan("call", notifier, skipNotify, t)]
  /\ ev' = [t |-> "start", s |-> FirstFree]
  /\ UNCHANGED << EARLY_CUTOFF_MINUTES, env, scenario, top, lastDips, lastScan, lastGet, probe >>

\* setTimeout(r, 1300) fires.
PacingDone(s) ==
  /\ sc[s].pc = "pacing"
  /\ Continue(s, BeginIteration(sc[s]))

\* The GLOBAL_QUOTE request settles: a rejection leaves fetchQuote and the
\* loop body, missing fields lead to the intraday request.
PrimaryDone(s) ==
  /\ sc[s].pc = "primary"
  /\ \E resp \in World.primary :
       LET r == [sc[s] EXCEPT !.data = resp]
       IN  IF resp = Rejected THEN Continue(s, Caught(r))
           ELSE IF PrimaryQuote(WATCHLIST[r.i + 1].symbol, resp) = Fallback
                THEN Continue(s, [r EXCEPT !.pc = "intraday", !.reqs = @ + 1])
                ELSE Continue(s, Classify(r, PrimaryQuote(WATCHLIST[r.i + 1].symbol, resp)))

\* The TIME_SERIES_INTRADAY request settles.
IntradayDone(s) ==
  /\ sc[s].pc = "intraday"
  /\ \E resp \in World.intraday :
       LET r == [sc[s] EXCEPT !.intraday = resp]
           p == IntradayPrice(resp)
       IN  IF p = Null THEN Continue(s, Classify(r, Null))
           ELSE Continue(s, [r EXCEPT !.pc = "daily", !.reqs = @ + 1, !.price = p.price])

\* The TIME_SERIES_DAILY_ADJUSTED request settles.
DailyDone(s) ==
  /\ sc[s].pc = "daily"
  /\ \E resp \in World.daily :
       LET r == [sc[s] EXCEPT !.daily = resp]
           daily == fetchDailyPrevClose(resp)
       IN  IF daily = Null THEN Continue(s, Classify(r, Null))
           ELSE Continue(s, Classify(r,
                  [symbol |-> WATCHLIST[r.i + 1].symbol, price |-> r.price,
                   prevClose |-> daily.prevClose, source |-> "INTRADAY+DAILY"]))

\* The ways the pending TelegramNotifier.notify invocation tn can settle.
Settlements(tn) ==
  IF tn.settled THEN {tn}
  ELSE {[TelegramNotifyResume(tn, o) EXCEPT !.outcome = o] : o \in PostOutcomes}

\* await notifier.notify(msg) settles; its value is dropped.
NotifyDone(s) ==
  /\ sc[s].pc = "notify"
  /\ IF sc[s].notifier.kind = "console"
     THEN Continue(s, CallTelegram([sc[s] EXCEPT !.notifyResult = Absent], env))
     ELSE \E tn \in Settlements(sc[s].tn) :
            LET r == [sc[s] EXCEPT !.notifyResult = tn, !.tn = Null]
            IN  IF tn.result = Throw THEN Continue(s, Caught(r))
                ELSE Continue(s, CallTelegram(r, env))

\* await tgNotifier.notify(msg) settles; its value is telegramResponse.
TelegramDone(s) ==
  /\ sc[s].pc = "tgnotify"
  /\ \E tn \in Settlements(sc[s].tn) :
       LET r == [sc[s] EXCEPT !.tn = tn, !.telegramResponse = tn.result]
       IN  IF tn.result = Throw THEN Continue(s, Caught(r))
           ELSE Continue(s, Push(r))

\* The code awaiting a returned scan runs and the slot is free again: the
\* promise of line 206 is dropped, line 213 prints, a caller gets the value,
\* and the handler (lines 193-204) responds.
Resume(s) ==
  /\ sc[s].pc = "returned"
  /\ ev' = CASE sc[s].origin = "load" -> [t |-> "dropped", s |-> s]
             [] sc[s].origin = "main" -> [t |-> "printed", s |-> s, value |-> sc[s].ret]
             [] sc[s].origin = "call" -> [t |-> "result", s |-> s, value |-> sc[s].ret]
             [] OTHER -> Response("scan", ScanBody(sc[s].ret), FALSE)
  /\ sc' = [sc EXCEPT ![s] = IdleScan]
  /\ UNCHANGED << EARLY_CUTOFF_MINUTES, env, scenario, top, lastDips, lastScan, lastGet, probe >>

Next ==
  \/ \E isMain \in BOOLEAN : ModuleLoad(isMain)
  \/ \E req \in Requests : handler(req)
  \/ \E n \in Notifiers, skip \in BOOLEAN : Call(n, skip)
  \/ \E s \in ScanIds : PacingDone(s)
  \/ \E s \in ScanIds : PrimaryDone(s)
  \/ \E s \in ScanIds : IntradayDone(s)
  \/ \E s \in ScanIds : DailyDone(s)
  \/ \E s \in ScanIds : NotifyDone(s)
  \/ \E s \in ScanIds : TelegramDone(s)
  \/ \E s \in ScanIds : Resume(s)

\* Requests served one at a time.
Spec == Init /\ [][Next]_vars

\* Overlapping scans.
SpecOverlap == InitOverlap /\ [][Next]_vars

\* Every pending timer, request and post of a scan settles, and the code
\* awaiting a returned scan runs: the event loop leaves no settled promise
\* unserved.
Settles ==
  \A s \in ScanIds :
    /\ WF_vars(PacingDone(s)) /\ WF_vars(PrimaryDone(s))
    /\ WF_vars(IntradayDone(s)) /\ WF_vars(DailyDone(s))
    /\ WF_vars(NotifyDone(s)) /\ WF_vars(TelegramDone(s))
    /\ WF_vars(Resume(s))

SpecFair == InitFair /\ [][Next]_vars /\ Settles

\* ------------------------------------------------------- the gate on its own
GateTimes ==
  { <<0, 0, 0, 0>>, <<9, 19, 0, 0>>, <<9, 19, 59, 999>>, <<9, 20, 0, 0>>,
    <<9, 20, 0, 1>>, <<12, 0, 0, 0>>, <<14, 44, 59, 999>>, <<14, 45, 0, 0>>,
    <<14, 45, 0, 1>>, <<14, 59, 59, 999>>, <<15, 0, 0, 0>>, <<15, 0, 0, 1>>,
    <<23, 59, 59, 999>> }

GateInstants == { At(d, h[1], h[2], h[3], h[4]) : d \in 1 .. 7, h \in GateTimes }

\* Values of EARLY_CUTOFF_MINUTES: none, the default, the ones that close the
\* window to one instant and to nothing, and ones reaching midnight and the
\* day before.
GateCutoffs == {0, 15, 340, 341, 900, 901, 1440}

InitGate ==
  /\ EARLY_CUTOFF_MINUTES \in GateCutoffs
  /\ scenario = "sequential"
  /\ env \in {e \in Environments : e.TG_BOT_TOKEN # Unset /\ e.TG_CHAT_ID # Unset}
  /\ top = "start"
  /\ lastDips = << >>
  /\ sc = [s \in ScanIds |-> IdleScan]
  /\ ev = [t |-> "none"]
  /\ lastScan = Null
  /\ lastGet = Null
  /\ probe = Null

\* isWithinTradingAlertWindow(nowIST) is evaluated.
Probe(nowIST) ==
  /\ probe' = [nowIST |-> nowIST, within |-> isWithinTradingAlertWindow(nowIST)]
  /\ UNCHANGED << EARLY_CUTOFF_MINUTES, env, scenario, top, lastDips, sc, ev, lastScan, lastGet >>

NextGate == \E nowIST \in GateInstants : Probe(nowIST)

SpecGate == InitGate /\ [][NextGate]_vars

\* ------------------------------------------------------------------ claims
\* The window as the specification words it, on the millisecond of the day:
\* a weekday, and 09:20:00.000 <= t <= 15:00:00.000 - cutoff minutes.
InWindow(dt, cutoffMinutes) ==
  /\ Weekday(dt) \in 1 .. 5
  /\ (9 * 60 + 20) * MsPerMinute <= dt.ms
  /\ dt.ms <= 15 * 60 * MsPerMinute - cutoffMinutes * MsPerMinute

HasDeliveryResult(d) == "telegram" \in DOMAIN d

\* C1: no record of the cache (lastDips) carries a telegram field, and no
\* record of a GET /get response body does, whatever scans have run or are
\* running.
C1_CacheHasNoDeliveryResult ==
  /\ \A k \in 1 .. Len(lastDips) : ~HasDeliveryResult(lastDips[k])
  /\ (ev.t = "response" /\ ev.route = "get") =>
       \A k \in 1 .. Len(ev.body.dips) : ~HasDeliveryResult(ev.body.dips[k])

\* C1's case: GET /get answered with a dip whose scan result carried a
\* delivery result, while another scan is in progress.
C1_Witness ==
  /\ ev.t = "response" /\ ev.route = "get"
  /\ Len(ev.body.dips) > 0
  /\ lastScan.dips[1].telegram # Null
  /\ Busy # {}

\* C2: a scan started at an instant outside the window returns at once
\* ok = false with no dips, has made no quote request and no notifier call,
\* and leaves lastDips as it was.
C2_OutsideWindowNoOp ==
  [][\A s \in ScanIds :
       (sc[s].pc = "idle" /\ sc'[s].pc # "idle"
          /\ ~InWindow(sc'[s].nowIST, EARLY_CUTOFF_MINUTES))
       => /\ sc'[s].pc = "returned"
          /\ sc'[s].ret.ok = FALSE
          /\ sc'[s].ret.dips = << >>
          /\ sc'[s].reqs = 0 /\ sc'[s].notified = 0 /\ sc'[s].tgCalls = 0
          /\ lastDips' = lastDips]_vars

\* C2's case: a scan has returned the outside-window result while the cache
\* holds the dips of an earlier scan.
C2_Witness ==
  \E s \in ScanIds :
    /\ sc[s].pc = "returned" /\ sc[s].ret = OutsideWindow
    /\ lastDips # << >>

\* C3: isWithinTradingAlertWindow(t) is false on Saturday and Sunday and, on
\* a weekday, true exactly when 09:20:00.000 <= t <= 15:00:00.000 minus
\* EARLY_CUTOFF_MINUTES, both bounds included.
C3_GateIsTheWindow ==
  probe # Null =>
    /\ (Weekday(probe.nowIST) > 5 => ~probe.within)
    /\ (probe.within <=> InWindow(probe.nowIST, EARLY_CUTOFF_MINUTES))

\* C3's case: the gate accepts a weekday instant that is exactly the cutoff.
C3_Witness ==
  /\ probe # Null
  /\ probe.within
  /\ EARLY_CUTOFF_MINUTES = 15
  /\ probe.nowIST = At(3, 14, 45, 0, 0)

\* The step just taken ended the iteration of a scan for one instrument; ev.r
\* is the scan at that point, its locals still in scope.
IterationEnded == ev.t = "iteration"

\* The step just taken settled the last request fetchQuote made for one
\* instrument: the iteration ended, or a dip was found and the notifier
\* called; ev.r is the scan at that point, fetchQuote's locals still in it.
FetchSettled == ev.t \in {"iteration", "quote"} /\ ev.r.data # Null

\* The record at the end of dips is the one of WATCHLIST[i].
PushedFor(r) ==
  /\ Len(r.dips) > 0
  /\ r.dips[Len(r.dips)].symbol = WATCHLIST[r.i + 1].symbol
  /\ r.dips[Len(r.dips)].name = WATCHLIST[r.i + 1].name

\* No record of dips is for WATCHLIST[i].
NoRecordFor(r) == \A k \in 1 .. Len(r.dips) : r.dips[k].symbol # WATCHLIST[r.i + 1].symbol

\* After the iteration that just ended the scan goes on: to the pacing delay
\* of the next instrument, or past the last one to its ok result.
GoesOn(s, r) ==
  IF r.i + 1 < NItems THEN sc[s].pc = "pacing" /\ sc[s].i = r.i + 1
  ELSE sc[s].pc = "returned" /\ sc[s].ret = [ok |-> TRUE, dips |-> r.dips]

\* C4: every record in a scan's dips, in its result and in the cache has a
\* change of at most -0.50 (hundredths: -50), and an instrument whose change
\* is exactly -1/2 percent is classified as a dip and its record appended.
C4_DipGate ==
  /\ \A s \in ScanIds : \A k \in 1 .. Len(sc[s].dips) : sc[s].dips[k].change <= -50
  /\ \A s \in ScanIds :
       sc[s].ret # Null => \A k \in 1 .. Len(sc[s].ret.dips) : sc[s].ret.dips[k].change <= -50
  /\ \A k \in 1 .. Len(lastDips) : lastDips[k].change <= -50
  /\ (IterationEnded /\ ev.r.quote # Null) =>
       LET q == ev.r.quote
       IN  (q.price.t = "num" /\ q.prevClose.t = "num" /\ q.prevClose.v > 0
              /\ (q.price.v - q.prevClose.v) * 100 * 2 = -q.prevClose.v)
           => /\ ev.r.cls = "dip"
              /\ PushedFor(ev.r)
              /\ ev.r.dips[Len(ev.r.dips)].change = -50

\* C4's case: price 99.5 against previous close 100 has just been recorded
\* and the scan that did it has written the cache.
C4_Witness ==
  /\ IterationEnded /\ ev.r.cls = "dip"
  /\ ev.r.quote.price = Num(995) /\ ev.r.quote.prevClose = Num(1000)
  /\ Len(lastDips) > 0 /\ lastDips[Len(lastDips)].change = -50
  /\ sc[ev.s].pc = "returned"

NonFinite(x) == x = NaN \/ x = Infinity

\* C5: pctChange is null exactly when an input is NaN or infinite or the
\* reference is 0, and an iteration whose change is null ends with no record
\* for the instrument, no notifier call and the scan going on to its ok
\* result.
C5_NullChangeSkips ==
  (IterationEnded /\ ev.r.quote # Null) =>
    LET q == ev.r.quote
        undefinedChange == NonFinite(q.price) \/ NonFinite(q.prevClose) \/ q.prevClose = Num(0)
    IN  /\ (pctChange(q.price, q.prevClose) = Null) <=> undefinedChange
        /\ undefinedChange =>
             /\ ev.r.cls = "nochange"
             /\ NoRecordFor(ev.r)
             /\ ev.r.notified = 0 /\ ev.r.tgCalls = 0 /\ ev.r.tn = Null
             /\ GoesOn(ev.s, ev.r)

\* C5's case: a previous close of 0 at the first instrument, skipped, the
\* scan waiting to go on with the second.
C5_Witness ==
  /\ IterationEnded /\ ev.r.quote # Null
  /\ ev.r.quote.prevClose = Num(0)
  /\ ev.r.cls = "nochange"
  /\ sc[ev.s].pc = "pacing"

\* d without its telegram field is c.
IsStripped(c, d) ==
  /\ DOMAIN c = DOMAIN d \ {"telegram"}
  /\ \A f \in DOMAIN c : c[f] = d[f]

\* C6: a GET /get served after an in-window scan completed, with no other
\* such scan completing in between, answers with exactly the records that
\* scan returned, in their order, each without its telegram field.
C6_GetAfterScan ==
  (ev.t = "response" /\ ev.route = "get" /\ lastScan # Null) =>
    /\ Len(ev.body.dips) = Len(lastScan.dips)
    /\ \A k \in 1 .. Len(lastScan.dips) : IsStripped(ev.body.dips[k], lastScan.dips[k])

\* C6's case: the scan found two dips, one delivery failed and one succeeded,
\* and GET /get is served while another scan is in progress.
C6_Witness ==
  /\ ev.t = "response" /\ ev.route = "get" /\ lastScan # Null
  /\ Len(ev.body.dips) = 2
  /\ lastScan.dips[1].telegram = TransportFailure
  /\ lastScan.dips[2].telegram = Delivered
  /\ Busy # {}

\* C7: the step that serves GET /get changes no scan (so starts none and
\* issues no request), leaves lastDips as it is and answers
\* {ok: true, dips: lastDips}, the body of the previous GET /get when no scan
\* has written the cache in between.
C7_GetIsReadOnly ==
  [][(ev'.t = "response" /\ ev'.route = "get") =>
       /\ sc' = sc
       /\ lastDips' = lastDips
       /\ ev'.status = 200
       /\ ev'.body = [ok |-> TRUE, dips |-> lastDips]
       /\ (lastGet # Null => ev'.body = lastGet.body)]_vars

\* C7's case: a second GET /get since the cache was written with dips, served
\* while a scan is in progress.
C7_Witness ==
  /\ ev.t = "response" /\ ev.route = "get"
  /\ ev.again
  /\ Len(ev.body.dips) > 0
  /\ Busy # {}

InLoop == {"pacing", "primary", "intraday", "daily", "notify", "tgnotify"}

\* C8: every step of a scan that is in its loop, a failed fetch or any other
\* exception included, leaves it in the loop at the same instrument, or
\* moves it to the next instrument, or, from the last instrument only, ends
\* it with lastDips overwritten and ok = true returned.
C8_FailureNeverAborts ==
  [][\A s \in ScanIds :
       (sc[s].pc \in InLoop /\ sc'[s] # sc[s]) =>
         \/ sc'[s].pc \in InLoop \ {"pacing"} /\ sc'[s].i = sc[s].i
         \/ sc'[s].pc = "pacing" /\ sc'[s].i = sc[s].i + 1 /\ sc'[s].i < NItems
         \/ /\ sc'[s].pc = "returned" /\ sc[s].i = NItems - 1
            /\ sc'[s].ret = [ok |-> TRUE, dips |-> sc'[s].dips]
            /\ lastDips' = StripAll(sc'[s].dips)]_vars

\* C8's case: the quote request of the first instrument was rejected and the
\* scan is at the pacing delay of the second.
C8_Witness ==
  /\ IterationEnded /\ ev.r.cls = "throw" /\ ev.r.i = 0
  /\ sc[ev.s].pc = "pacing" /\ sc[ev.s].i = 1

\* The notifier passed to the scan returned a failure.
PassedNotifierFailed(r) ==
  /\ r.notifyResult # Null /\ r.notifyResult # Absent
  /\ r.notifyResult.result # Throw /\ ~r.notifyResult.result.ok

\* The post of the scan's own Telegram notifier was rejected.
RemoteNotifierFailed(r) == r.tgCalls > 0 /\ r.tn # Null /\ r.tn.outcome = "error"

\* C9 as claimed: a delivery failure in the passed notifier or in the
\* Telegram notifier is attached as an ok = false result to the telegram field
\* of the instrument's record, which is appended, and the scan goes on.
C9_AsClaimed ==
  (IterationEnded /\ ~ev.r.skipNotify /\ (PassedNotifierFailed(ev.r) \/ RemoteNotifierFailed(ev.r))) =>
    /\ ev.r.cls = "dip"
    /\ PushedFor(ev.r)
    /\ ev.r.dips[Len(ev.r.dips)].telegram # Null
    /\ ~ev.r.dips[Len(ev.r.dips)].telegram.ok
    /\ GoesOn(ev.s, ev.r)

\* C9 amended: a rejected post of the scan's own Telegram notifier is attached
\* as {ok: false, error} to the telegram field of the instrument's record; a
\* failure returned by the passed notifier is dropped, the telegram field
\* being what the scan's own Telegram notifier returned, or null when the
\* environment configures none.  In both cases the record is appended and the
\* scan goes on.
C9_FailureCaptured ==
  (IterationEnded /\ ~ev.r.skipNotify /\ (PassedNotifierFailed(ev.r) \/ RemoteNotifierFailed(ev.r))) =>
    /\ ev.r.cls = "dip"
    /\ PushedFor(ev.r)
    /\ RemoteNotifierFailed(ev.r) =>
         ev.r.dips[Len(ev.r.dips)].telegram = [ok |-> FALSE, error |-> "Network Error"]
    /\ ev.r.tgCalls = 0 => ev.r.dips[Len(ev.r.dips)].telegram = Null
    /\ (ev.r.tgCalls > 0 /\ ev.r.tn.outcome = "ok") =>
         ev.r.dips[Len(ev.r.dips)].telegram = Delivered
    /\ GoesOn(ev.s, ev.r)

\* C9's case: the passed notifier failed for missing credentials, the scan's
\* own Telegram notifier failed in transport, at the first instrument.
C9_Witness ==
  /\ IterationEnded /\ ~ev.r.skipNotify
  /\ PassedNotifierFailed(ev.r) /\ RemoteNotifierFailed(ev.r)
  /\ ev.r.dips[Len(ev.r.dips)].telegram = TransportFailure
  /\ sc[ev.s].pc = "pacing"

\* An invocation of TelegramNotifier.notify as C10 wants it.
NotifyContract(tn) ==
  IF tn.botToken = Unset \/ tn.chatId = Unset
  THEN tn.posts = 0 /\ tn.settled /\ tn.result = MissingCredentials
  ELSE /\ tn.posts = 1
       /\ ~tn.settled => tn.result = Null
       /\ tn.settled =>
            \/ tn.outcome = "ok" /\ tn.result = Delivered
            \/ tn.outcome = "error" /\ tn.result = [ok |-> FALSE, error |-> "Network Error"]

\* The invocations of TelegramNotifier.notify in sight in the scan r.
Invocations(r) ==
  (IF r.tn # Null THEN {r.tn} ELSE {}) \cup
  (IF r.notifyResult # Null /\ r.notifyResult # Absent THEN {r.notifyResult} ELSE {})

\* C10: an invocation of TelegramNotifier.notify with a credential missing
\* makes no post and returns the missing-credentials failure; any other makes
\* exactly one post and returns ok = true when it resolves and ok = false with
\* the error message when it is rejected; none throws.
C10_NotifyContract ==
  /\ \A s \in ScanIds : \A tn \in Invocations(sc[s]) : NotifyContract(tn)
  /\ IterationEnded => \A tn \in Invocations(ev.r) : NotifyContract(tn)

\* C10's case: in one iteration the passed notifier lacked its token and
\* returned without a post, and the scan's own notifier made its one post,
\* which was rejected.
C10_Witness ==
  /\ IterationEnded
  /\ ev.r.notifyResult # Null /\ ev.r.notifyResult # Absent
  /\ ev.r.notifyResult.botToken = Unset /\ ev.r.notifyResult.posts = 0
  /\ ev.r.tn # Null /\ ev.r.tn.posts = 1 /\ ev.r.tn.result = TransportFailure

\* Both Telegram keys are set in the environment.
RemoteConfigured == env.TG_BOT_TOKEN # Unset /\ env.TG_CHAT_ID # Unset

\* C11: an iteration that recorded a dip has, without skipNotify, called the
\* passed notifier exactly once and the Telegram notifier of the environment
\* once when both keys are set and never otherwise, the telegram field being
\* what that notifier returned (null when it was not called); with skipNotify
\* it has called no notifier and the telegram field is null.  The Telegram
\* notifier is only ever awaited after the one call of the passed notifier.
C11_NotifierCalls ==
  /\ \A s \in ScanIds :
       sc[s].pc = "tgnotify" => sc[s].notified = 1 /\ sc[s].tgCalls = 1 /\ ~sc[s].skipNotify
  /\ (IterationEnded /\ ev.r.cls = "dip") =>
       LET d == ev.r.dips[Len(ev.r.dips)]
       IN  /\ PushedFor(ev.r)
           /\ ~ev.r.skipNotify =>
                /\ ev.r.notified = 1
                /\ ev.r.tgCalls = (IF RemoteConfigured THEN 1 ELSE 0)
                /\ ev.r.tgCalls = 1 => d.telegram = ev.r.tn.result /\ d.telegram # Null
                /\ ev.r.tgCalls = 0 => d.telegram = Null
           /\ ev.r.skipNotify =>
                /\ ev.r.notified = 0 /\ ev.r.tgCalls = 0
                /\ d.telegram = Null

\* C11's case: a dip of a scan with skipNotify, recorded with a null telegram
\* field in an environment that configures the Telegram notifier.
C11_Witness ==
  /\ IterationEnded /\ ev.r.cls = "dip"
  /\ ev.r.skipNotify /\ RemoteConfigured
  /\ ev.r.dips[Len(ev.r.dips)].telegram = Null

\* The telegram fields of dips that are not null, in order.
RECURSIVE DeliveryResults(_)
DeliveryResults(dips) ==
  IF Len(dips) = 0 THEN << >>
  ELSE IF dips[1].telegram = Null THEN DeliveryResults(Tail(dips))
       ELSE << dips[1].telegram >> \o DeliveryResults(Tail(dips))

\* C12: a request that is not GET /get starts exactly one scan, with the
\* console notifier and notifications on; when that scan has returned the
\* handler answers 200 with ok the scan's ok (false exactly when the scan
\* started outside the window), dips the scan's dips without their telegram
\* fields, and telegram the non-null telegram fields, left out when there
\* is none.
C12_ScanResponse ==
  [][/\ \A s \in ScanIds :
          (sc[s].pc = "idle" /\ sc'[s].pc # "idle" /\ sc'[s].origin = "handler") =>
            /\ \A u \in ScanIds \ {s} : sc'[u] = sc[u]
            /\ sc'[s].notifier = ConsoleNotifier /\ ~sc'[s].skipNotify
            /\ sc'[s].dips = << >> /\ sc'[s].i = 0
     /\ \A s \in ScanIds :
          (sc[s].pc = "returned" /\ sc[s].origin = "handler" /\ sc'[s].pc = "idle") =>
            LET ret == sc[s].ret
                body == ev'.body
            IN  /\ ev'.t = "response" /\ ev'.route = "scan" /\ ev'.status = 200
                /\ body.ok = ret.ok
                /\ body.ok = InWindow(sc[s].nowIST, EARLY_CUTOFF_MINUTES)
                /\ Len(body.dips) = Len(ret.dips)
                /\ \A k \in 1 .. Len(ret.dips) : IsStripped(body.dips[k], ret.dips[k])
                /\ IF DeliveryResults(ret.dips) = << >>
                   THEN DOMAIN body = {"ok", "dips"}
                   ELSE /\ DOMAIN body = {"ok", "dips", "telegram"}
                        /\ body.telegram = DeliveryResults(ret.dips)]_vars

\* C12's case: the handler has answered a scan of two dips, one delivery
\* failed and one succeeded, both listed in the telegram field.
C12_Witness ==
  /\ ev.t = "response" /\ ev.route = "scan"
  /\ Len(ev.body.dips) = 2
  /\ "telegram" \in DOMAIN ev.body
  /\ ev.body.telegram = << TransportFailure, Delivered >>

\* C12's other case: the handler has answered a scan that started outside
\* the window.
C12_WitnessOutside ==
  /\ ev.t = "response" /\ ev.route = "scan"
  /\ ~ev.body.ok /\ DOMAIN ev.body = {"ok", "dips"}

\* The scans suspended at a network call or at the pacing delay.
Suspended == {s \in ScanIds : sc[s].pc \in InLoop}

\* C13 as claimed: at most one scan is suspended at any time, so no scan
\* starts while another is suspended.
C13_AsClaimed == Cardinality(Suspended) <= 1

\* C14 as claimed: the module run directly (and not exiting for want of the
\* API key) has started exactly one scan when its top-level code has run.
C14_AsClaimed ==
  (ev.t = "load" /\ ev.isMain /\ top = "main") =>
    Cardinality({s \in ScanIds : sc[s].pc # "idle"}) = 1

\* The GLOBAL_QUOTE response lacks the quote, its price or its previous
\* close.
LacksFields(data) ==
  /\ data.t = "data"
  /\ \/ data.quote = Absent
     \/ data.quote.price = Absent
     \/ data.quote.prev = Absent

\* C15 as claimed: an iteration whose GLOBAL_QUOTE request was rejected, or
\* answered without the price or the previous close, has gone on to the
\* intraday request.
C15_AsClaimed ==
  (FetchSettled /\ (ev.r.data = Rejected \/ LacksFields(ev.r.data))) =>
    ev.r.reqs >= 2 /\ ev.r.intraday # Null

\* C15 amended: the intraday request is made exactly when the GLOBAL_QUOTE
\* response came without the quote, its price or its previous close, and the
\* daily request only after an intraday response with a latest bar; a rejected
\* GLOBAL_QUOTE request ends the iteration at once, with no further request
\* and no record for the instrument.
C15_FallbackOnMissingFields ==
  /\ \A s \in ScanIds :
       sc[s].pc \in {"intraday", "daily"} =>
         /\ LacksFields(sc[s].data)
         /\ sc[s].reqs = (IF sc[s].pc = "intraday" THEN 2 ELSE 3)
  /\ FetchSettled =>
       /\ LacksFields(ev.r.data) <=> ev.r.intraday # Null
       /\ LacksFields(ev.r.data) => ev.r.reqs \in {2, 3}
       /\ ev.r.reqs = 3 <=> ev.r.daily # Null
       /\ ev.r.daily # Null =>
            ev.r.intraday.t = "series" /\ Len(ev.r.intraday.bars) > 0
       /\ ev.r.data = Rejected =>
            /\ ev.r.reqs = 1 /\ ev.r.cls = "throw"
            /\ NoRecordFor(ev.r)
            /\ GoesOn(ev.s, ev.r)
       /\ (ev.r.data # Rejected /\ ~LacksFields(ev.r.data)) =>
            ev.r.reqs = 1 /\ ev.r.quote.source = "GLOBAL_QUOTE"

\* C15's case: the response lacked the previous close and the quote made of
\* the intraday and daily series is a dip, the notifier being called.
C15_Witness ==
  /\ FetchSettled /\ ev.t = "quote" /\ ev.r.data # Rejected
  /\ ev.r.data.quote # Absent /\ ev.r.data.quote.prev = Absent
  /\ ev.r.reqs = 3 /\ sc[ev.s].pc = "notify"
  /\ ev.r.quote.source = "INTRADAY+DAILY"

\* The request was rejected, or its response has no series, or a series
\* without bars.
NoBars(resp) == resp = Rejected \/ resp = NoSeries \/ resp = Series(<< >>)

\* The response is a series whose latest bar has no close.
NoClose(resp) ==
  /\ resp.t = "series" /\ Len(resp.bars) > 0
  /\ resp.bars[Len(resp.bars)].close = Absent

\* The iteration r ended with no quote: nothing thrown, no notifier called,
\* no record for the instrument.
SkippedFor(r, cls) ==
  /\ r.cls = cls
  /\ r.notified = 0 /\ r.tgCalls = 0
  /\ NoRecordFor(r)

\* C16 as claimed: on the fallback path a rejected request, a malformed
\* payload (a latest bar without its close is one) or a missing series, in
\* the intraday or the daily request, gives a null quote, with nothing
\* thrown and no record for the instrument.
C16_AsClaimed ==
  (IterationEnded /\ ev.r.intraday # Null
     /\ (NoBars(ev.r.intraday) \/ NoClose(ev.r.intraday)
           \/ (ev.r.daily # Null /\ NoBars(ev.r.daily)))) =>
    /\ ev.r.quote = Null
    /\ SkippedFor(ev.r, "noquote")
    /\ GoesOn(ev.s, ev.r)

\* C16 amended: a rejected request, a response without the series or a
\* series without bars, intraday or daily, gives a null quote; a latest
\* intraday bar without its close gives, when the daily request succeeds, a
\* quote whose price is NaN, whose change is null.  In every one of these
\* cases nothing is thrown, no notifier is called, the instrument gets no
\* record and the scan goes on.
C16_FallbackFailureSkips ==
  (IterationEnded /\ ev.r.intraday # Null) =>
    /\ (NoBars(ev.r.intraday) \/ (ev.r.daily # Null /\ NoBars(ev.r.daily))) =>
         /\ ev.r.quote = Null
         /\ SkippedFor(ev.r, "noquote")
         /\ GoesOn(ev.s, ev.r)
    /\ NoBars(ev.r.intraday) => ev.r.reqs = 2 /\ ev.r.daily = Null
    /\ (NoClose(ev.r.intraday) /\ ev.r.daily # Null /\ ~NoBars(ev.r.daily)) =>
         /\ ev.r.quote # Null /\ ev.r.quote.price = NaN
         /\ SkippedFor(ev.r, "nochange")
         /\ GoesOn(ev.s, ev.r)

\* C16's case: the intraday series was there, the daily request was rejected
\* at the first instrument, and the scan is at the pacing delay of the second.
C16_Witness ==
  /\ IterationEnded /\ ev.r.intraday # Null /\ ev.r.daily = Rejected
  /\ ev.r.quote = Null /\ ev.r.cls = "noquote" /\ ev.r.reqs = 3
  /\ sc[ev.s].pc = "pacing"

\* The quote q gives a defined change of at most -1/2 percent:
\* 100 (p - c) / c <= -1/2, with finite p and c and c not 0.
Qualifies(q) ==
  /\ q # Null
  /\ q.price.t = "num" /\ q.prevClose.t = "num" /\ q.prevClose.v # 0
  /\ IF q.prevClose.v > 0
     THEN 200 * (q.price.v - q.prevClose.v) <= -q.prevClose.v
     ELSE 200 * (q.price.v - q.prevClose.v) >= -q.prevClose.v

\* The place of a symbol in WATCHLIST.
WatchlistIndex(symbol) == CHOOSE k \in 1 .. Len(WATCHLIST) : WATCHLIST[k].symbol = symbol

\* C17: a scan starts with no dips; the iteration for an instrument appends
\* one record for it, with the quote's price and previous close, when the
\* fetched quote gives a defined change of at most -0.5 percent, and leaves
\* dips as they are otherwise; so dips hold at most one record per
\* instrument, in WATCHLIST order, and they are what the scan returns.  A
\* price of 95 against a previous close of 100 is recorded with change -5.00.
C17_ExactlyTheDips ==
  [][\A s \in ScanIds :
       /\ (sc[s].pc = "idle" /\ sc'[s].pc # "idle") => sc'[s].dips = << >>
       /\ (sc[s].pc \in InLoop /\ sc'[s].pc \in InLoop /\ sc'[s].i = sc[s].i) =>
            sc'[s].dips = sc[s].dips
       /\ (ev'.t = "iteration" /\ ev'.s = s) =>
            LET r == ev'.r
                q == r.quote
            IN  /\ r.i = sc[s].i
                /\ sc'[s].dips = r.dips
                /\ IF Qualifies(q)
                   THEN /\ r.dips = Append(sc[s].dips, r.dips[Len(r.dips)])
                        /\ PushedFor(r)
                        /\ r.dips[Len(r.dips)].price = q.price.v
                        /\ r.dips[Len(r.dips)].prevClose = q.prevClose.v
                        /\ (q.price = Num(950) /\ q.prevClose = Num(1000)) =>
                             r.dips[Len(r.dips)].change = -500
                   ELSE r.dips = sc[s].dips
                /\ \A j, k \in 1 .. Len(r.dips) :
                     j < k => WatchlistIndex(r.dips[j].symbol) < WatchlistIndex(r.dips[k].symbol)
                /\ \A k \in 1 .. Len(r.dips) : WatchlistIndex(r.dips[k].symbol) <= r.i + 1
                /\ sc'[s].pc = "returned" => sc'[s].ret = [ok |-> TRUE, dips |-> r.dips]]_vars

\* C17's case: a scan has returned one record, for the second instrument,
\* whose price was 95 against 100; the first instrument was not a dip.
C17_Witness ==
  \E s \in ScanIds :
    /\ sc[s].pc = "returned" /\ sc[s].ret.ok
    /\ Len(sc[s].ret.dips) = 1
    /\ sc[s].ret.dips[1].symbol = WATCHLIST[2].symbol
    /\ sc[s].ret.dips[1].price = 950 /\ sc[s].ret.dips[1].prevClose = 1000
    /\ sc[s].ret.dips[1].change = -500

\* The network requests the scan r has outstanding: a quote request, or the
\* post of a Telegram notifier.
Outstanding(r) ==
  (IF r.pc \in {"primary", "intraday", "daily"} THEN 1 ELSE 0)
  + (IF r.tn # Null /\ ~r.tn.settled THEN 1 ELSE 0)

\* C18: a scan in its window starts with the quote request of the first
\* instrument, with no pacing delay before it; the instrument changes only
\* at the end of an iteration, by one, into the pacing delay, and the quote
\* request of that instrument is issued only when the delay has elapsed; a
\* scan never has two requests outstanding, and none during the delay.
C18_Serialized ==
  [][\A s \in ScanIds :
       /\ (sc[s].pc = "idle" /\ sc'[s].pc # "idle") =>
            \/ sc'[s].pc = "returned" /\ sc'[s].reqs = 0
            \/ sc'[s].pc = "primary" /\ sc'[s].i = 0 /\ sc'[s].reqs = 1
       /\ (sc[s].pc \in InLoop /\ sc'[s].pc \in InLoop /\ sc'[s].i # sc[s].i) =>
            /\ ev'.t = "iteration" /\ ev'.s = s
            /\ sc'[s].i = sc[s].i + 1
            /\ sc'[s].pc = "pacing" /\ sc'[s].reqs = 0
       /\ (sc[s].pc \in InLoop /\ sc'[s].pc = "primary" /\ sc'[s] # sc[s]) =>
            sc[s].pc = "pacing" /\ sc'[s].i = sc[s].i /\ sc'[s].reqs = 1
       /\ (sc[s].pc = "pacing" /\ sc'[s] # sc[s]) => sc'[s].pc = "primary"
       /\ (sc'[s].pc \in {"intraday", "daily"} /\ sc'[s] # sc[s]) =>
            /\ sc[s].pc = (IF sc'[s].pc = "intraday" THEN "primary" ELSE "intraday")
            /\ sc'[s].reqs = sc[s].reqs + 1 /\ sc'[s].i = sc[s].i
       /\ Outstanding(sc'[s]) <= 1
       /\ sc'[s].pc \in {"pacing", "returned", "idle"} => Outstanding(sc'[s]) = 0]_vars

\* C18's case: the quote request of the second instrument is outstanding,
\* issued by the step that ended the pacing delay.
C18_Witness ==
  \E s \in ScanIds :
    /\ ev.t = "step" /\ ev.s = s
    /\ sc[s].pc = "primary" /\ sc[s].i = 1 /\ sc[s].reqs = 1
    /\ Outstanding(sc[s]) = 1

\* cache is dips, record by record, without the telegram fields.
IsStrippedSeq(cache, dips) ==
  /\ Len(cache) = Len(dips)
  /\ \A k \in 1 .. Len(dips) : IsStripped(cache[k], dips[k])

\* C19: lastDips is empty until a scan in its window has completed; it
\* changes only in the step in which a scan leaves the iteration of the last
\* instrument and returns, and is then that scan's whole dips without their
\* telegram fields; in every state it is empty or the stripped dips of the
\* scan that completed last, whatever the other scans in progress have
\* found; GET /get served meanwhile answers with it.
C19_CacheIsOneScan ==
  [][/\ lastScan' = Null => lastDips' = << >>
     /\ lastScan' # Null => IsStrippedSeq(lastDips', lastScan'.dips)
     /\ (lastDips' # lastDips \/ lastScan' # lastScan) =>
          \E s \in ScanIds :
            /\ sc[s].pc \in InLoop /\ sc[s].i = NItems - 1
            /\ sc'[s].pc = "returned" /\ sc'[s].ret.ok
            /\ ev'.t = "iteration" /\ ev'.s = s
            /\ lastScan' = sc'[s].ret
            /\ IsStrippedSeq(lastDips', sc'[s].ret.dips)
     /\ (ev'.t = "iteration" /\ sc'[ev'.s].pc # "returned") =>
          lastDips' = lastDips
     /\ (ev'.t = "response" /\ ev'.route = "get") =>
          ev'.body.dips = lastDips /\ lastDips' = lastDips]_vars

\* C19's case: GET /get is answered with the one record of the scan that
\* completed last, for the second instrument, while another scan in progress
\* already holds a record for the first.
C19_Witness ==
  /\ ev.t = "response" /\ ev.route = "get"
  /\ Len(ev.body.dips) = 1 /\ ev.body.dips[1].symbol = WATCHLIST[2].symbol
  /\ lastDips = ev.body.dips
  /\ \E s \in ScanIds :
       /\ sc[s].pc \in InLoop
       /\ Len(sc[s].dips) = 1 /\ sc[s].dips[1].symbol = WATCHLIST[1].symbol

\* C20: when every timer, request and post settles, every scan in its loop
\* comes to return a result, having made at most three quote requests for
\* each instrument, and the handler answers every request that started a
\* scan, freeing the scan's slot with that one answer; a scan is never left
\* by an exception.
C20_Progress ==
  /\ [](\A s \in ScanIds :
          /\ sc[s].reqs <= 3
          /\ sc[s].pc \in InLoop \cup {"idle", "returned"})
  /\ [](IterationEnded => ev.r.reqs \in 1 .. 3)
  /\ \A s \in ScanIds :
       (sc[s].pc \in InLoop) ~> (sc[s].pc = "returned" /\ sc[s].ret # Null)
  /\ \A s \in ScanIds :
       (sc[s].pc # "idle" /\ sc[s].origin = "handler")
         ~> (ev.t = "response" /\ ev.route = "scan" /\ sc[s].pc = "idle")

\* C20's case: a scan started by the handler has made its three quote
\* requests for the second instrument and returned, its answer yet to be
\* sent.
C20_Witness ==
  \E s \in ScanIds :
    /\ IterationEnded /\ ev.s = s /\ ev.r.reqs = 3 /\ ev.r.i = 1
    /\ sc[s].pc = "returned" /\ sc[s].origin = "handler" /\ sc[s].ret.ok

====
